---- MODULE Spec2Model ----
(***************************************************************************)
(* The mailroom data model (mailroom/model.py): Donor objects holding a    *)
(* name and a list of donations, and DonorDB, a dict from name to Donor    *)
(* with a JSON snapshot, a thank-you letter and a report.                  *)
(*                                                                         *)
(* Python objects live on a heap: `lists` holds the list objects and       *)
(* `donorObjs` the Donor objects, both keyed by an object identity, so     *)
(* that aliasing and object identity are observable.  An object nobody     *)
(* references any more is reclaimed at the end of the call that dropped    *)
(* it, as CPython's reference counting does.                               *)
(***************************************************************************)
EXTENDS Integers, Sequences, FiniteSets, TLC

\* ---------------------------------------------------------------- bounds

MaxLen == 2          \* longest donation list explored
MaxDonors == 3       \* most Donor objects alive at once
MaxCallerLists == 1  \* lists the caller keeps a reference to
MaxCalls == 6        \* calls that change something, in one run

\* the donor names and the donation amounts the calls are made with
Names == {"A", "B", "C"}
Amounts == {5, 10}

\* ------------------------------------------------------- Python values

\* None, and a present value x, of an optional result
None == <<>>
Some(x) == <<x>>

\* a call's outcome: a returned value or a raised exception
Return(v) == [kind |-> "return", val |-> v]
Raise(e) == [kind |-> "raise", val |-> e]

\* the identity given to a newly created object: the first one not in use
Alloc(used) == CHOOSE i \in 1..(Cardinality(used) + 1) :
                 i \notin used /\ \A j \in 1..(i - 1) : j \in used

\* builtin sum(): left to right, starting from 0
RECURSIVE sum(_)
sum(s) == IF s = <<>> THEN 0 ELSE sum(SubSeq(s, 1, Len(s) - 1)) + s[Len(s)]

RECURSIVE Gcd(_, _)
Gcd(a, b) == IF b = 0 THEN a ELSE Gcd(b, a % b)

\* a // b in place of a / b
FloorDiv(a, b) ==
    IF b = 0 THEN Raise("ZeroDivisionError") ELSE Return([n |-> a \div b, d |-> 1])

\* a / b on numbers: ZeroDivisionError for b = 0, else the quotient, kept
\* exact as a fraction in lowest terms
TrueDiv(a, b) ==
    IF b = 0 THEN Raise("ZeroDivisionError")
    ELSE LET g == Gcd(a, b) IN
         Return(IF g = 0 THEN [n |-> 0, d |-> 1] ELSE [n |-> a \div g, d |-> b \div g])

\* format(x, ".2f") of a non-negative number n/d: the decimal string with two
\* digits after the point, held as the number of hundredths; None has no
\* such format (TypeError).  The nearest hundredth; n/d has no tie for d < 8.
Format2f(x) ==
    IF x = None THEN Raise("TypeError")
    ELSE Return((200 * x[1].n + x[1].d) \div (2 * x[1].d))

\* an int as the number it is, for Format2f
Num(i) == Some([n |-> i, d |-> 1])

VARIABLES
    lists,        \* heap: list identity -> the list's elements
    donorObjs,    \* heap: Donor identity -> its attributes (and its history)
    donor_data,   \* DonorDB.value_data of the DonorDB in use: the dict's
                  \* items in iteration order, each [key, value]
    file,         \* the snapshot file: None, or Some(its JSON content)
    callerLists,  \* identities of the lists the caller made and keeps
    held,         \* identities of the Donors the caller made and keeps
    ret,          \* the last call: its name, arguments and outcome
    renamed,      \* history: some Donor's name has been assigned after __init__
    saved,        \* history: the items of donor_data at the last save_to_file
    calls         \* history: the number of calls made so far that changed something

vars == <<lists, donorObjs, donor_data, file, callerLists, held, ret, renamed, saved, calls>>

\* ---------------------------------------------------------------- Donor

\* Donor.__init__ without self.name = donor_name: the name stays the class's
\* default, None, written "None" here
DonorInitNoName(H, donor_name, init) ==
    LET l == Alloc(DOMAIN H.L)
        d == Alloc(DOMAIN H.D)
        elems == IF init = None THEN <<>> ELSE H.L[init[1]]
        obj == [_donorname |-> "None", donations |-> l,
                hist_init |-> elems, hist_passed |-> <<>>]
    IN [H |-> [L |-> (l :> elems) @@ H.L, D |-> (d :> obj) @@ H.D], id |-> d]

\* Donor.__init__ keeping the caller's list itself: self.donations = initial_donations
DonorInitAlias(H, donor_name, init) ==
    LET l == IF init = None THEN Alloc(DOMAIN H.L) ELSE init[1]
        d == Alloc(DOMAIN H.D)
        elems == IF init = None THEN <<>> ELSE H.L[init[1]]
        obj == [_donorname |-> donor_name, donations |-> l,
                hist_init |-> elems, hist_passed |-> <<>>]
    IN [H |-> [L |-> (l :> elems) @@ H.L, D |-> (d :> obj) @@ H.D], id |-> d]

\* Donor.__init__(donor_name, initial_donations) on the heap H = [L, D]:
\* init is None or Some(the identity of the caller's list).  The Donor's
\* donations is a new list holding the elements of the caller's.
DonorInit(H, donor_name, init) ==
    LET l == Alloc(DOMAIN H.L)
        d == Alloc(DOMAIN H.D)
        elems == IF init = None THEN <<>> ELSE H.L[init[1]]
        obj == [_donorname |-> donor_name, donations |-> l,
                hist_init |-> elems, hist_passed |-> <<>>]
    IN [H |-> [L |-> (l :> elems) @@ H.L, D |-> (d :> obj) @@ H.D], id |-> d]

\* Donor.name
name(d) == donorObjs[d]._donorname

\* Donor.donations, the elements of the list
donations(d) == lists[donorObjs[d].donations]

\* total_donations leaving the last donation out: sum(self.donations[:-1])
TotalExceptLast(d) == sum(SubSeq(donations(d), 1, Len(donations(d)) - 1))

\* Donor.total_donations
total_donations(d) == sum(donations(d))

\* Donor.num_donations
num_donations(d) == Len(donations(d))

\* avg_donations with a default of 0 for no donations
AvgOrZero(d) ==
    IF donations(d) = <<>> THEN Return([n |-> 0, d |-> 1])
    ELSE TrueDiv(total_donations(d), Len(donations(d)))

\* Donor.avg_donations
avg_donations(d) == TrueDiv(total_donations(d), Len(donations(d)))

\* last_donation reading the first donation: self.donations[0]
FirstDonation(d) ==
    IF donations(d) = <<>> THEN None ELSE Some(donations(d)[1])

\* Donor.last_donation: self.donations[-1], None on IndexError
last_donation(d) ==
    IF donations(d) = <<>> THEN None ELSE Some(donations(d)[Len(donations(d))])

\* list.append
Append_(L, l, amount) == [L EXCEPT ![l] = Append(@, amount)]

\* ------------------------------------------------------------- DonorDB

\* dict.setdefault(k, v) in place of dict[k] = v: a present key keeps its value
RECURSIVE DictSetDefault(_, _, _)
DictSetDefault(dd, k, v) ==
    IF dd = <<>> THEN <<[key |-> k, value |-> v]>>
    ELSE IF Head(dd).key = k THEN dd
    ELSE <<Head(dd)>> \o DictSetDefault(Tail(dd), k, v)

\* dict[k] = v: a present key keeps its place and takes the new value, a
\* new key goes last
RECURSIVE DictSet(_, _, _)
DictSet(dd, k, v) ==
    IF dd = <<>> THEN <<[key |-> k, value |-> v]>>
    ELSE IF Head(dd).key = k THEN <<[key |-> k, value |-> v]>> \o Tail(dd)
    ELSE <<Head(dd)>> \o DictSet(Tail(dd), k, v)

\* dict.get(k)
RECURSIVE DictGet(_, _)
DictGet(dd, k) ==
    IF dd = <<>> THEN None
    ELSE IF Head(dd).key = k THEN Some(Head(dd).value)
    ELSE DictGet(Tail(dd), k)

\* DonorDB.__init__: {d.name: d for d in donors}
RECURSIVE DonorDBInit(_, _)
DonorDBInit(D, donors) ==
    IF donors = <<>> THEN <<>>
    ELSE LET d == donors[Len(donors)]
         IN DictSet(DonorDBInit(D, SubSeq(donors, 1, Len(donors) - 1)),
                    D[d]._donorname, d)

\* DonorDB.get_donor
get_donor(n) == DictGet(donor_data, n)

\* DonorDB.save_to_file, the dict it dumps: {k: v.donations for k, v in items}
Output(dd, L, D) == [i \in 1..Len(dd) |-> [key |-> dd[i].key, value |-> L[D[dd[i].value].donations]]]

\* the decimal literal json writes for an int, as its digits
RECURSIVE IntToDigits(_)
IntToDigits(n) == IF n < 10 THEN <<n>> ELSE IntToDigits(n \div 10) \o <<n % 10>>

\* the int json reads from a decimal literal
RECURSIVE DigitsToInt(_)
DigitsToInt(ds) ==
    IF ds = <<>> THEN 0 ELSE 10 * DigitsToInt(SubSeq(ds, 1, Len(ds) - 1)) + ds[Len(ds)]

\* json.dump of a dict of lists of ints: the object's members in the dict's
\* order, each a string and an array of number literals
JsonDump(output) ==
    [i \in 1..Len(output) |->
        [key |-> output[i].key,
         value |-> [j \in 1..Len(output[i].value) |-> IntToDigits(output[i].value[j])]]]

\* json.load: the dict of the object's members, a repeated key taking its
\* last value; each array a list of the numbers read
RECURSIVE JsonLoad(_)
JsonLoad(text) ==
    IF text = <<>> THEN <<>>
    ELSE LET m == text[Len(text)]
         IN DictSet(JsonLoad(SubSeq(text, 1, Len(text) - 1)), m.key,
                    [j \in 1..Len(m.value) |-> DigitsToInt(m.value[j])])

\* load_from_file making each Donor from the name alone: Donor(d[0])
RECURSIVE LoadDonorsByName(_, _)
LoadDonorsByName(H, items) ==
    IF items = <<>> THEN [H |-> H, ids |-> <<>>]
    ELSE LET one == DonorInit(H, Head(items).key, None)
             rest == LoadDonorsByName(one.H, Tail(items))
         IN [H |-> rest.H, ids |-> <<one.id>> \o rest.ids]

\* DonorDB.load_from_file, [Donor(*d) for d in donors.items()] on the heap H:
\* each value of the loaded dict is a list object of its own, handed to
\* Donor.__init__ as initial_donations.  Gives the heap and the Donors made.
RECURSIVE LoadDonors(_, _)
LoadDonors(H, items) ==
    IF items = <<>> THEN [H |-> H, ids |-> <<>>]
    ELSE LET l == Alloc(DOMAIN H.L)
             H1 == [L |-> (l :> Head(items).value) @@ H.L, D |-> H.D]
             one == DonorInit(H1, Head(items).key, Some(l))
             rest == LoadDonors(one.H, Tail(items))
         IN [H |-> rest.H, ids |-> <<one.id>> \o rest.ids]

\* ------------------------------------------------------------- letters

\* THANK_YOU_LETTER.format(donor.name, donor.last_donation): the template's
\* two fields, the second through ".2f"
ThankYouLetter(donor_name, last) ==
    LET amt == Format2f(IF last = None THEN None ELSE Num(last[1]))
    IN IF amt.kind = "raise" THEN amt
       ELSE Return([dear |-> donor_name, donation |-> amt.val])

\* DonorDB.send_letter
send_letter(d) == ThankYouLetter(name(d), last_donation(d))

\* -------------------------------------------------------------- report

\* donor_dict.setdefault(total, []).append(donor)
RECURSIVE SetDefaultAppend(_, _, _)
SetDefaultAppend(dct, k, v) ==
    IF dct = <<>> THEN <<[key |-> k, val |-> <<v>>]>>
    ELSE IF Head(dct).key = k
         THEN <<[key |-> k, val |-> Append(Head(dct).val, v)]>> \o Tail(dct)
    ELSE <<Head(dct)>> \o SetDefaultAppend(Tail(dct), k, v)

\* the loop of get_donor_report that fills donor_dict from donor_data.values()
RECURSIVE DonorDict(_)
DonorDict(dd) ==
    IF dd = <<>> THEN <<>>
    ELSE LET d == dd[Len(dd)].value
         IN SetDefaultAppend(DonorDict(SubSeq(dd, 1, Len(dd) - 1)), total_donations(d), d)

\* sorted(): ascending
RECURSIVE sorted(_)
sorted(S) ==
    IF S = {} THEN <<>>
    ELSE LET m == CHOOSE x \in S : \A y \in S : x <= y
         IN <<m>> \o sorted(S \ {m})

\* the sequence as it is, not reversed
NotReversed(s) == s

\* reversed()
reversed(s) == [i \in 1..Len(s) |-> s[Len(s) + 1 - i]]

\* REPORT_LINE.format(donor.name, donor.total_donations, donor.num_donations,
\* donor.avg_donations): the line's four fields, or the exception of
\* avg_donations
ReportLine(d) ==
    LET avg == avg_donations(d)
    IN IF avg.kind = "raise" THEN avg
       ELSE Return([name |-> name(d),
                    total |-> Format2f(Num(total_donations(d))).val,
                    num |-> num_donations(d),
                    avg |-> Format2f(Some(avg.val)).val])

\* the donors in the order the report's two loops visit them
ReportOrder(dd) ==
    LET donor_dict == DonorDict(dd)
        keys == reversed(sorted({donor_dict[i].key : i \in DOMAIN donor_dict}))
        group(k) == (CHOOSE i \in DOMAIN donor_dict : donor_dict[i].key = k)
        RECURSIVE flat(_)
        flat(ks) == IF ks = <<>> THEN <<>>
                    ELSE donor_dict[group(Head(ks))].val \o flat(Tail(ks))
    IN flat(keys)

\* DonorDB.get_donor_report: the header, the rule of 90 dashes and the donor
\* lines; the first exception a line raises ends the call
get_donor_report ==
    LET order == ReportOrder(donor_data)
        raised == {i \in DOMAIN order : ReportLine(order[i]).kind = "raise"}
    IN IF raised # {}
       THEN ReportLine(order[CHOOSE i \in raised : \A j \in raised : i <= j])
       ELSE Return([header |-> <<"Donor Name", "Total Given", "Num Gifts", "Average Gift">>,
                    rule |-> 90,
                    lines |-> [i \in DOMAIN order |-> ReportLine(order[i]).val]])

\* ------------------------------------------------------------- the heap

\* The state a call that changes something leaves: the objects still
\* referenced (a Donor by the DonorDB in use or by the caller; a list by a
\* Donor or by the caller) stay, the others are reclaimed.
Leave(L, D, dd, f, cl, h, r, rn, sv) ==
    LET liveD == {dd[i].value : i \in DOMAIN dd} \cup h
        liveL == {D[d].donations : d \in liveD} \cup cl
    IN /\ calls < MaxCalls
       /\ calls' = calls + 1
       /\ Cardinality(liveD) <= MaxDonors
       /\ lists' = [l \in liveL |-> L[l]]
       /\ donorObjs' = [d \in liveD |-> D[d]]
       /\ donor_data' = dd
       /\ file' = f
       /\ callerLists' = cl
       /\ held' = h
       /\ ret' = r
       /\ renamed' = rn
       /\ saved' = sv

\* The state a call that only reads leaves: nothing but its outcome.
Read(r) ==
    /\ ret' = r
    /\ UNCHANGED <<lists, donorObjs, donor_data, file, callerLists, held,
                   renamed, saved, calls>>

Call(op, arg, out) == [op |-> op, arg |-> arg, out |-> out]

Heap == [L |-> lists, D |-> donorObjs]

\* ---------------------------------------------------------------- Init

\* a fresh process: nothing on the heap, DonorDB() with no donors, no file
Init ==
    /\ lists = <<>>
    /\ donorObjs = <<>>
    /\ donor_data = DonorDBInit(<<>>, <<>>)
    /\ file = None
    /\ callerLists = {}
    /\ held = {}
    /\ ret = Call("DonorDB", <<>>, Return(None))
    /\ renamed = FALSE
    /\ saved = <<>>
    /\ calls = 0

\* ------------------------------------------------------------- actions

\* the caller makes a list, [], to hand to Donor(name, initial_donations)
NewList ==
    /\ Cardinality(callerLists) < MaxCallerLists
    /\ LET l == Alloc(DOMAIN lists)
       IN Leave((l :> <<>>) @@ lists, donorObjs, donor_data, file,
                callerLists \cup {l}, held, Call("list", <<>>, Return(None)),
                renamed, saved)

\* the caller appends to a list of its own
CallerAppend ==
    \E l \in callerLists, amount \in Amounts :
        /\ Len(lists[l]) < MaxLen
        /\ Leave(Append_(lists, l, amount), donorObjs, donor_data, file,
                 callerLists, held, Call("list.append", <<l, amount>>, Return(None)),
                 renamed, saved)

\* Donor(donor_name) and Donor(donor_name, initial_donations), the name one
\* of `names`
NewDonor(names) ==
    \E donor_name \in names, init \in {None} \cup {Some(l) : l \in callerLists} :
        LET new == DonorInit(Heap, donor_name, init)
        IN Leave(new.H.L, new.H.D, donor_data, file, callerLists,
                 held \cup {new.id},
                 Call("Donor", <<donor_name, init>>, Return(Some(new.id))),
                 renamed, saved)

\* donor.name = donor_name, the name one of `names`
SetName(names) ==
    \E d \in DOMAIN donorObjs, donor_name \in names :
        Leave(lists, [donorObjs EXCEPT ![d]._donorname = donor_name],
              donor_data, file, callerLists, held,
              Call("name", <<d, donor_name>>, Return(None)), TRUE, saved)

\* Donor.add_donation, the amount one of `amounts`
add_donation(amounts) ==
    \E d \in DOMAIN donorObjs, amount \in amounts :
        /\ Len(donations(d)) < MaxLen
        /\ Leave(Append_(lists, donorObjs[d].donations, amount),
                 [donorObjs EXCEPT ![d].hist_passed = Append(@, amount)],
                 donor_data, file, callerLists, held,
                 Call("add_donation", <<d, amount>>, Return(None)), renamed, saved)

\* reading Donor.avg_donations
ReadAvg ==
    \E d \in DOMAIN donorObjs :
        Read(Call("avg_donations", <<d>>, avg_donations(d)))

\* DonorDB() and DonorDB(donors), donors a list of none, one or two of the
\* Donors the caller made
NewDonorDB ==
    \E n \in 0..2 : \E donors \in [1..n -> held] :
        Leave(lists, donorObjs, DonorDBInit(donorObjs, donors), file,
              callerLists, held, Call("DonorDB", donors, Return(None)),
              renamed, saved)

\* DonorDB.get_donor, the name one of `names`
GetDonor(names) ==
    \E n \in names :
        Read(Call("get_donor", <<n>>, Return(get_donor(n))))

\* DonorDB.add_donor, the name one of `names`; the call's record keeps, as
\* history, the donations of the Donor that was stored under the name before
add_donor(names) ==
    \E n \in names :
        LET new == DonorInit(Heap, n, None)
            old == get_donor(n)
            was == IF old = None THEN None ELSE Some(donations(old[1]))
        IN Leave(new.H.L, new.H.D, DictSet(donor_data, n, new.id), file,
                 callerLists, held,
                 [op |-> "add_donor", arg |-> <<n>>, out |-> Return(Some(new.id)),
                  replaced |-> was],
                 renamed, saved)

\* DonorDB.save_to_file
save_to_file ==
    LET output == Output(donor_data, lists, donorObjs)
    IN Leave(lists, donorObjs, donor_data, Some(JsonDump(output)), callerLists,
             held, Call("save_to_file", <<>>, Return(None)), renamed, output)

\* DonorDB.load_from_file; the DonorDB it returns is the one in use from then
\* on.  open() raises when there is no file.
load_from_file ==
    IF file = None
    THEN Read(Call("load_from_file", <<>>, Raise("FileNotFoundError")))
    ELSE LET donors == JsonLoad(file[1])
             made == LoadDonors(Heap, donors)
         IN Leave(made.H.L, made.H.D, DonorDBInit(made.H.D, made.ids), file,
                  callerLists, held, Call("load_from_file", <<>>, Return(None)),
                  renamed, saved)

\* DonorDB.send_letter
SendLetter ==
    \E d \in DOMAIN donorObjs :
        Read(Call("send_letter", <<d>>, send_letter(d)))

\* DonorDB.get_donor_report
GetDonorReport ==
    Read(Call("get_donor_report", <<>>, get_donor_report))

Next ==
    \/ NewList
    \/ CallerAppend
    \/ NewDonor(Names)
    \/ SetName(Names)
    \/ add_donation(Amounts)
    \/ ReadAvg
    \/ NewDonorDB
    \/ GetDonor(Names)
    \/ add_donor(Names)
    \/ save_to_file
    \/ load_from_file
    \/ SendLetter
    \/ GetDonorReport

Spec == Init /\ [][Next]_vars

\* the Donor class on its own; no method of a Donor reads another Donor, so
\* one name does for them all
NextDonor ==
    \/ NewList
    \/ CallerAppend
    \/ NewDonor({"A"})
    \/ add_donation(Amounts)
    \/ ReadAvg
    \/ SendLetter

SpecDonor == Init /\ [][NextDonor]_vars

\* a DonorDB filled through add_donor and add_donation, and its report
NextReport ==
    \/ add_donor(Names)
    \/ add_donation(Amounts)
    \/ GetDonor(Names)
    \/ GetDonorReport

SpecReport == Init /\ [][NextReport]_vars

\* a DonorDB and its snapshot file
NextFile ==
    \/ add_donor(Names)
    \/ add_donation(Amounts)
    \/ save_to_file
    \/ load_from_file

SpecFile == Init /\ [][NextFile]_vars

\* a DonorDB made in each of its three ways, and the names of its Donors;
\* two names and one amount do: the keys are all that matters.  get_donor
\* changes nothing, and what it returns is read off donor_data.
NextName ==
    \/ NewDonor({"A", "B"})
    \/ NewDonorDB
    \/ add_donor({"A", "B"})
    \/ add_donation({5})
    \/ save_to_file
    \/ load_from_file
    \/ SetName({"A", "B"})

SpecName == Init /\ [][NextName]_vars

\* ---------------------------------------------------------- properties

\* what a Donor was given: its initial donations, then every amount passed
\* to add_donation, in the order of the calls
Given(d) == donorObjs[d].hist_init \o donorObjs[d].hist_passed

\* the orders in which n terms can be added up
Orders(n) == {p \in [1..n -> 1..n] : \A i, j \in 1..n : p[i] = p[j] => i = j}

\* the terms of s added up in the order p, from the last term of p back
RECURSIVE SumIn(_, _)
SumIn(s, p) == IF p = <<>> THEN 0 ELSE s[Head(p)] + SumIn(s, Tail(p))

\* C1, as stated: for every Donor, total_donations is the sum, taken in any
\* order, of the values passed to add_donation on that Donor.
C1_Original ==
    \A d \in DOMAIN donorObjs :
        \A p \in Orders(Len(donorObjs[d].hist_passed)) :
            total_donations(d) = SumIn(donorObjs[d].hist_passed, p)

\* C1, amended: for every Donor, total_donations is the sum, taken in any
\* order, of the Donor's initial donations and of the values passed to
\* add_donation on that Donor.
C1_Total ==
    \A d \in DOMAIN donorObjs :
        \A p \in Orders(Len(Given(d))) : total_donations(d) = SumIn(Given(d), p)

\* a Donor made from a list of one amount and given another amount since
C1_Witness ==
    \E d \in DOMAIN donorObjs :
        /\ Len(donorObjs[d].hist_init) = 1
        /\ Len(donorObjs[d].hist_passed) = 1
        /\ donorObjs[d].hist_init # donorObjs[d].hist_passed

\* C5: for every Donor with at least one donation, num_donations is the
\* number of donations it was given and last_donation is the one given last;
\* right after add_donation(amount), last_donation is that amount.
C5_NumAndLast ==
    /\ \A d \in DOMAIN donorObjs :
           Len(donations(d)) >= 1 =>
               /\ num_donations(d) = Len(Given(d))
               /\ num_donations(d) = Len(donations(d))
               /\ last_donation(d) = Some(Given(d)[Len(Given(d))])
    /\ ret.op = "add_donation" => last_donation(ret.arg[1]) = Some(ret.arg[2])

\* add_donation has just put a second, different amount on a Donor
C5_Witness ==
    /\ ret.op = "add_donation"
    /\ Len(donations(ret.arg[1])) = 2
    /\ donations(ret.arg[1])[1] # ret.arg[2]

\* C6, as stated: send_letter of a donor with no donations returns a letter
\* whose last-donation slot holds None; it does not fail.
C6_LetterForNoDonations ==
    (ret.op = "send_letter" /\ donations(ret.arg[1]) = <<>>) =>
        /\ ret.out.kind = "return"
        /\ ret.out.val.dear = name(ret.arg[1])
        /\ ret.out.val.donation = last_donation(ret.arg[1])

\* one step, for C7
C7_Step ==
    /\ \A d \in DOMAIN donorObjs' : donorObjs'[d].donations \notin callerLists'
    /\ (ret'.op = "Donor" /\ ret'.arg[2] # None) =>
           lists'[donorObjs'[ret'.out.val[1]].donations] = lists[ret'.arg[2][1]]
    /\ ret'.op = "add_donation" =>
           \A l \in callerLists : lists'[l] = lists[l]
    /\ ret'.op = "list.append" =>
           \A d \in DOMAIN donorObjs :
               /\ donations(d)' = donations(d)
               /\ total_donations(d)' = total_donations(d)
               /\ num_donations(d)' = num_donations(d)

\* C7: a Donor's donations is never the caller's list; made from a list it
\* holds that list's elements; add_donation leaves every list of the caller
\* as it was, and an append to a list of the caller leaves every Donor's
\* donations, total_donations and num_donations as they were.
C7_NoAlias == [][C7_Step]_vars

\* a Donor made from the caller's list of one amount; since then the Donor
\* was given a donation and the caller appended to its list
C7_Witness ==
    \E d \in DOMAIN donorObjs, l \in callerLists :
        /\ Len(donorObjs[d].hist_init) = 1
        /\ Len(donorObjs[d].hist_passed) = 1
        /\ Len(lists[l]) = 2
        /\ lists[l] # donations(d)

\* one step, for C8
C8_Step ==
    ret'.op = "avg_donations" =>
        LET d == ret'.arg[1] IN
        /\ donations(d) # <<>> =>
               /\ ret'.out.kind = "return"
               /\ ret'.out.val.n * num_donations(d) = ret'.out.val.d * total_donations(d)
        /\ donations(d) = <<>> => ret'.out = Raise("ZeroDivisionError")
        /\ UNCHANGED <<lists, donorObjs, donor_data, file, callerLists, held>>

\* C8: avg_donations of a Donor with donations is total_donations divided by
\* num_donations, of a Donor with none it raises ZeroDivisionError; reading
\* it changes nothing.
C8_Average == [][C8_Step]_vars

\* avg_donations was read on a Donor with no donations
C8_Witness ==
    /\ ret.op = "avg_donations"
    /\ donations(ret.arg[1]) = <<>>
    /\ ret.out.kind = "raise"

\* the place of the key k in the dict dd
Place(dd, k) == CHOOSE i \in DOMAIN dd : dd[i].key = k

\* C3: the donor lines of a report are one line per stored Donor, a larger
\* total always above a smaller one, equal totals on adjacent lines and in
\* the order the Donors have in donor_data.
C3_ReportOrder ==
    (ret.op = "get_donor_report" /\ ret.out.kind = "return") =>
        LET lines == ret.out.val.lines IN
        /\ Len(lines) = Len(donor_data)
        /\ \A i \in DOMAIN donor_data :
               \E j \in DOMAIN lines :
                   /\ lines[j].name = name(donor_data[i].value)
                   /\ lines[j].total = 100 * total_donations(donor_data[i].value)
        /\ \A i, j \in DOMAIN lines :
               /\ lines[i].total > lines[j].total => i < j
               /\ (i < j /\ lines[i].total = lines[j].total) =>
                      /\ \A k \in i..j : lines[k].total = lines[i].total
                      /\ Place(donor_data, lines[i].name) < Place(donor_data, lines[j].name)

\* a report of three Donors stored with totals t, u, t, u the larger: the
\* second Donor is on the first line, the first and the third follow
C3_Witness ==
    /\ ret.op = "get_donor_report"
    /\ ret.out.kind = "return"
    /\ Len(donor_data) = 3
    /\ total_donations(donor_data[1].value) = total_donations(donor_data[3].value)
    /\ total_donations(donor_data[2].value) > total_donations(donor_data[1].value)
    /\ ret.out.val.lines[1].name = donor_data[2].key
    /\ ret.out.val.lines[2].name = donor_data[1].key

\* one step, for C4
C4_Step ==
    (ret'.op = "add_donor" /\ ret'.replaced # None /\ ret'.replaced # Some(<<>>)) =>
        LET n == ret'.arg[1]
            new == ret'.out.val[1]
        IN /\ new \notin DOMAIN donorObjs
           /\ DictGet(donor_data', n) = Some(new)
           /\ donorObjs'[new]._donorname = n
           /\ Len(lists'[donorObjs'[new].donations]) = 0
           /\ Len(donor_data') = Len(donor_data)
           /\ \A i \in DOMAIN donor_data :
                  /\ donor_data'[i].key = donor_data[i].key
                  /\ donor_data[i].key # n =>
                         /\ donor_data'[i] = donor_data[i]
                         /\ donorObjs'[donor_data[i].value] = donorObjs[donor_data[i].value]
                         /\ donations(donor_data[i].value)' = donations(donor_data[i].value)

\* C4: add_donor(name) on a name stored with a Donor that has donations puts
\* a new Donor with no donations in its place and returns it: get_donor(name)
\* is the returned Donor, its num_donations is 0, and every other entry, its
\* Donor and that Donor's donations are as before.
C4_AddDonorReplaces == [][C4_Step]_vars

\* add_donor has just replaced a Donor that had donations, beside another
\* Donor that has some
C4_Witness ==
    /\ ret.op = "add_donor"
    /\ ret.replaced # None
    /\ ret.replaced # Some(<<>>)
    /\ \E i \in DOMAIN donor_data :
           donor_data[i].key # ret.arg[1] /\ donations(donor_data[i].value) # <<>>

\* C9: get_donor_report returns a report exactly when every stored Donor has
\* a donation; with a stored Donor that has none it raises ZeroDivisionError
\* and returns nothing.
C9_ReportNeedsDonations ==
    ret.op = "get_donor_report" =>
        LET empty == {i \in DOMAIN donor_data : donations(donor_data[i].value) = <<>>}
        IN /\ empty = {} <=> ret.out.kind = "return"
           /\ empty # {} => ret.out = Raise("ZeroDivisionError")

\* a report asked for, and refused, with a Donor that has no donations
\* stored before one that has some
C9_Witness ==
    /\ ret.op = "get_donor_report"
    /\ ret.out.kind = "raise"
    /\ \E i, j \in DOMAIN donor_data :
           /\ i < j
           /\ donations(donor_data[i].value) = <<>>
           /\ donations(donor_data[j].value) # <<>>

\* C2: after save_to_file of a DonorDB that is not empty, load_from_file
\* gives a DonorDB with the names that were saved, in the same order, each
\* with a Donor of that name holding the amounts saved for it, in order.
C2_RoundTrip ==
    (ret.op = "load_from_file" /\ ret.out.kind = "return" /\ saved # <<>>) =>
        /\ Output(donor_data, lists, donorObjs) = saved
        /\ \A i \in DOMAIN donor_data : name(donor_data[i].value) = donor_data[i].key

\* a DonorDB just loaded from a snapshot of two Donors, one with the two
\* amounts in the order 10, 5
C2_Witness ==
    /\ ret.op = "load_from_file"
    /\ ret.out.kind = "return"
    /\ Len(saved) = 2
    /\ \E i \in DOMAIN donor_data : donations(donor_data[i].value) = <<10, 5>>
    /\ \E i \in DOMAIN donor_data : donations(donor_data[i].value) = <<>>

\* every key of donor_data is the name of the Donor stored under it
KeysAreNames ==
    \A i \in DOMAIN donor_data : name(donor_data[i].value) = donor_data[i].key

\* the name of a Donor stored in donor_data is being assigned for the first
\* time, and the name is a new one: donor.name = n
FirstRename(d, n) ==
    /\ ~renamed
    /\ ret'.op = "name"
    /\ ret'.arg = <<d, n>>
    /\ n # name(d)
    /\ \E i \in DOMAIN donor_data : donor_data[i].value = d

\* one step, for C10 as stated
C10_StepOriginal ==
    \A d \in DOMAIN donorObjs, n \in Names :
        FirstRename(d, n) =>
            /\ ~KeysAreNames'
            /\ DictGet(donor_data', name(d)) = Some(d)
            /\ DictGet(donor_data', n) = None

\* C10, as stated: with no name assigned, every key of donor_data is the
\* name of its Donor; one assignment to a stored Donor's name breaks this,
\* get_donor(old name) still returns that Donor and get_donor(new name)
\* returns None.
C10_Original == [](~renamed => KeysAreNames) /\ [][C10_StepOriginal]_vars

\* one step, for C10 as amended
C10_Step ==
    \A d \in DOMAIN donorObjs, n \in Names :
        FirstRename(d, n) =>
            /\ ~KeysAreNames'
            /\ donor_data' = donor_data
            /\ DictGet(donor_data', name(d)) = Some(d)
            /\ DictGet(donor_data', n) # Some(d)
            /\ DictGet(donor_data', n) = DictGet(donor_data, n)
            /\ (\A i \in DOMAIN donor_data : donor_data[i].key # n) =>
                   DictGet(donor_data', n) = None

\* C10, amended: with no name assigned, every key of donor_data is the name
\* of its Donor; one assignment to a stored Donor's name breaks this, the
\* dict is left as it was, get_donor(old name) still returns that Donor and
\* get_donor(new name) returns None, unless another Donor is stored under
\* the new name: then it returns that other Donor.
C10_KeysAndRename == [](~renamed => KeysAreNames) /\ [][C10_Step]_vars

\* a stored Donor has just been given the name another Donor is stored under
C10_Witness ==
    /\ ret.op = "name"
    /\ \E i, j \in DOMAIN donor_data :
           /\ i # j
           /\ donor_data[i].value = ret.arg[1]
           /\ donor_data[i].key # ret.arg[2]
           /\ donor_data[j].key = ret.arg[2]
           /\ name(donor_data[j].value) = donor_data[j].key

====
